---- MODULE Spec2Model ----
(***************************************************************************)
(* Model of password_security_checker.py: the PasswordChecker class        *)
(* (strength scoring, the k-anonymity breach lookup, the recommendations)  *)
(* and the main loop that drives check_password.                           *)
(*                                                                         *)
(* A Python str is modelled as a sequence of Unicode code points, a bytes  *)
(* object as a sequence of numbers in 0..255.                              *)
(***************************************************************************)
EXTENDS Integers, Sequences, FiniteSets, TLC

(***************************************************************************)
(* Generic sequence helpers.                                               *)
(***************************************************************************)
Range(s) == {s[i] : i \in 1..Len(s)}

Repeat(c, n) == [i \in 1..n |-> c]

RECURSIVE Flatten(_)
Flatten(ss) == IF ss = <<>> THEN <<>> ELSE Head(ss) \o Flatten(Tail(ss))

\* needle occurs in haystack as a contiguous run (used by the properties)
Contains(haystack, needle) ==
    \E i \in 0..(Len(haystack) - Len(needle)) :
        SubSeq(haystack, i + 1, i + Len(needle)) = needle

(***************************************************************************)
(* password.encode('utf-8').  The codec is strict: a surrogate code point  *)
(* (U+D800..U+DFFF, which input() delivers for an undecodable byte) has no *)
(* encoding and the call raises UnicodeEncodeError.  A result is a record  *)
(* [raises, value]; value is the bytes when nothing is raised.             *)
(***************************************************************************)
Surrogates == 55296..57343

Utf8Char(cp) ==
    IF cp \in Surrogates THEN [raises |-> "UnicodeEncodeError", value |-> <<>>]
    ELSE [raises |-> "none", value |->
        IF cp < 128 THEN <<cp>>
        ELSE IF cp < 2048 THEN <<192 + (cp \div 64), 128 + (cp % 64)>>
        ELSE IF cp < 65536 THEN
            <<224 + (cp \div 4096), 128 + ((cp \div 64) % 64),
              128 + (cp % 64)>>
        ELSE <<240 + (cp \div 262144), 128 + ((cp \div 4096) % 64),
               128 + ((cp \div 64) % 64), 128 + (cp % 64)>>]

Utf8(s) ==
    IF \E i \in 1..Len(s) : Utf8Char(s[i]).raises # "none"
    THEN [raises |-> "UnicodeEncodeError", value |-> <<>>]
    ELSE [raises |-> "none",
          value |-> Flatten([i \in 1..Len(s) |-> Utf8Char(s[i]).value])]

(***************************************************************************)
(* hashlib.sha1: FIPS 180-4 SHA-1.  A 32-bit word is a pair <<hi, lo>> of  *)
(* 16-bit halves, so that no intermediate value leaves the integer range.  *)
(***************************************************************************)
RECURSIVE Pow2(_)
Pow2(n) == IF n = 0 THEN 1 ELSE 2 * Pow2(n - 1)

ChBit == [x \in 0..1 |-> [y \in 0..1 |-> [z \in 0..1 |->
            IF x = 1 THEN y ELSE z]]]
ParityBit == [x \in 0..1 |-> [y \in 0..1 |-> [z \in 0..1 |->
            (x + y + z) % 2]]]
MajBit == [x \in 0..1 |-> [y \in 0..1 |-> [z \in 0..1 |->
            IF x + y + z >= 2 THEN 1 ELSE 0]]]

\* bitwise combination of three 4-bit numbers; f gives the result bit
Nibble3(f, x, y, z) ==
    8 * f[(x \div 8) % 2][(y \div 8) % 2][(z \div 8) % 2]
    + 4 * f[(x \div 4) % 2][(y \div 4) % 2][(z \div 4) % 2]
    + 2 * f[(x \div 2) % 2][(y \div 2) % 2][(z \div 2) % 2]
    + f[x % 2][y % 2][z % 2]

\* the same for three 16-bit numbers
Half3(f, x, y, z) ==
    4096 * Nibble3(f, x \div 4096, y \div 4096, z \div 4096)
    + 256 * Nibble3(f, (x \div 256) % 16, (y \div 256) % 16, (z \div 256) % 16)
    + 16 * Nibble3(f, (x \div 16) % 16, (y \div 16) % 16, (z \div 16) % 16)
    + Nibble3(f, x % 16, y % 16, z % 16)

WordOp(f, x, y, z) ==
    <<Half3(f, x[1], y[1], z[1]), Half3(f, x[2], y[2], z[2])>>

WordXor(x, y) == WordOp(ParityBit, x, y, <<0, 0>>)

WordAdd(x, y) ==
    LET lo == x[2] + y[2]
    IN  <<(x[1] + y[1] + (lo \div 65536)) % 65536, lo % 65536>>

\* rotate left by n, 0 <= n < 32
RotL(x, n) ==
    LET w == IF n >= 16 THEN <<x[2], x[1]>> ELSE x
        k == n % 16
        up == Pow2(k)
        down == Pow2(16 - k)
    IN  IF k = 0 THEN w
        ELSE <<((w[1] * up) % 65536) + (w[2] \div down),
               ((w[2] * up) % 65536) + (w[1] \div down)>>

\* the message followed by 0x80, zero bytes and the 64-bit bit length
Sha1Pad(msg) ==
    LET n == Len(msg)
        zeros == (119 - (n % 64)) % 64
        bits == 8 * n
    IN  msg \o <<128>> \o Repeat(0, zeros) \o <<0, 0, 0, 0>>
        \o <<(bits \div 16777216) % 256, (bits \div 65536) % 256,
             (bits \div 256) % 256, bits % 256>>

\* the 16 big-endian words of block number b (from 0) of the padded message
BlockWords(padded, b) ==
    [t \in 1..16 |->
        LET o == 64 * b + 4 * (t - 1)
        IN  <<256 * padded[o + 1] + padded[o + 2],
              256 * padded[o + 3] + padded[o + 4]>>]

\* W[t] for the next t, from the words before it (W[0..t-1] is w[1..t])
NextWord(w) ==
    LET t == Len(w) + 1
        x == WordXor(WordOp(ParityBit, w[t - 3], w[t - 8], w[t - 14]),
                     w[t - 16])
    IN  RotL(x, 1)

\* w with its next n words appended, n >= 1.  The loop is split in halves
\* only to keep the evaluation shallow: the result is the n-fold extension.
RECURSIVE Extend(_, _)
Extend(w, n) ==
    IF n = 1 THEN Append(w, NextWord(w))
    ELSE LET half == n \div 2
             mid == Extend(w, half)
         IN  IF Len(mid) > 0 THEN Extend(mid, n - half) ELSE mid

\* the message schedule W[0..79], here indexed from 1
Schedule(words) == Extend(words, 64)

Sha1F(t, b, c, d) ==
    IF t < 20 THEN WordOp(ChBit, b, c, d)
    ELSE IF t < 40 THEN WordOp(ParityBit, b, c, d)
    ELSE IF t < 60 THEN WordOp(MajBit, b, c, d)
    ELSE WordOp(ParityBit, b, c, d)

Sha1K(t) ==
    IF t < 20 THEN <<23170, 31129>>        \* 0x5A827999
    ELSE IF t < 40 THEN <<28377, 60321>>   \* 0x6ED9EBA1
    ELSE IF t < 60 THEN <<36635, 48348>>   \* 0x8F1BBCDC
    ELSE <<51810, 49622>>                  \* 0xCA62C1D6

\* round t on the working variables v = <<a, b, c, d, e>>
Round(t, v, w) ==
    LET temp == WordAdd(WordAdd(WordAdd(RotL(v[1], 5),
                                        Sha1F(t, v[2], v[3], v[4])),
                                WordAdd(v[5], Sha1K(t))),
                        w[t + 1])
    IN  <<temp, v[1], RotL(v[2], 30), v[3], v[4]>>

\* rounds t .. t+n-1, n >= 1, split in halves as in Extend
RECURSIVE Rounds(_, _, _, _)
Rounds(t, n, v, w) ==
    IF n = 1 THEN Round(t, v, w)
    ELSE LET half == n \div 2
             mid == Rounds(t, half, v, w)
         IN  IF Len(mid) > 0 THEN Rounds(t + half, n - half, mid, w) ELSE mid

Sha1Block(h, words) ==
    LET w == Schedule(words)
        v == IF Len(w) = 80 THEN Rounds(0, 80, h, w) ELSE h
    IN  <<WordAdd(h[1], v[1]), WordAdd(h[2], v[2]), WordAdd(h[3], v[3]),
          WordAdd(h[4], v[4]), WordAdd(h[5], v[5])>>

RECURSIVE Sha1Blocks(_, _, _)
Sha1Blocks(h, padded, b) ==
    IF 64 * b >= Len(padded) THEN h
    ELSE LET next == Sha1Block(h, BlockWords(padded, b))
         IN  IF Len(next) = 5 THEN Sha1Blocks(next, padded, b + 1) ELSE next

Sha1Init ==
    << <<26437, 8961>>,    \* 0x67452301
       <<61389, 43913>>,   \* 0xEFCDAB89
       <<39098, 56574>>,   \* 0x98BADCFE
       <<4146, 21622>>,    \* 0x10325476
       <<50130, 57840>> >> \* 0xC3D2E1F0

\* the digest as five words
Sha1(msg) == Sha1Blocks(Sha1Init, Sha1Pad(msg), 0)

\* one hexadecimal digit as hexdigest() writes it: 0-9, a-f
HexChar(n) == IF n < 10 THEN 48 + n ELSE 87 + n

HexHalf(x) ==
    <<HexChar(x \div 4096), HexChar((x \div 256) % 16),
      HexChar((x \div 16) % 16), HexChar(x % 16)>>

\* hashlib.sha1(msg).hexdigest(): 40 lowercase hexadecimal characters
HexDigest(msg) ==
    LET h == Sha1(msg)
    IN  Flatten([i \in 1..5 |-> HexHalf(h[i][1]) \o HexHalf(h[i][2])])

(***************************************************************************)
(* Character classes and case mapping of Python's str and re.              *)
(***************************************************************************)
\* The decimal digits of Unicode (category Nd), in runs <<first, last>>; every
\* run starts at a digit zero and counts 0..9 upwards, over and over.
DecimalDigitRanges ==
  <<
    <<48, 57>>, <<1632, 1641>>, <<1776, 1785>>, <<1984, 1993>>,
    <<2406, 2415>>, <<2534, 2543>>, <<2662, 2671>>, <<2790, 2799>>,
    <<2918, 2927>>, <<3046, 3055>>, <<3174, 3183>>, <<3302, 3311>>,
    <<3430, 3439>>, <<3558, 3567>>, <<3664, 3673>>, <<3792, 3801>>,
    <<3872, 3881>>, <<4160, 4169>>, <<4240, 4249>>, <<6112, 6121>>,
    <<6160, 6169>>, <<6470, 6479>>, <<6608, 6617>>, <<6784, 6793>>,
    <<6800, 6809>>, <<6992, 7001>>, <<7088, 7097>>, <<7232, 7241>>,
    <<7248, 7257>>, <<42528, 42537>>, <<43216, 43225>>, <<43264, 43273>>,
    <<43472, 43481>>, <<43504, 43513>>, <<43600, 43609>>, <<44016, 44025>>,
    <<65296, 65305>>, <<66720, 66729>>, <<68912, 68921>>, <<69734, 69743>>,
    <<69872, 69881>>, <<69942, 69951>>, <<70096, 70105>>, <<70384, 70393>>,
    <<70736, 70745>>, <<70864, 70873>>, <<71248, 71257>>, <<71360, 71369>>,
    <<71472, 71481>>, <<71904, 71913>>, <<72016, 72025>>, <<72784, 72793>>,
    <<73040, 73049>>, <<73120, 73129>>, <<92768, 92777>>, <<92864, 92873>>,
    <<93008, 93017>>, <<120782, 120831>>, <<123200, 123209>>,
    <<123632, 123641>>, <<125264, 125273>>, <<130032, 130041>>
  >>

\* re  \d  on a str pattern: any Unicode decimal digit
IsDigit(c) ==
    IF c < 128 THEN c \in 48..57
    ELSE \E i \in 1..Len(DecimalDigitRanges) :
            c \in DecimalDigitRanges[i][1]..DecimalDigitRanges[i][2]

\* re  [a-z]  and  [A-Z] : ASCII letters only
IsAsciiLower(c) == c \in 97..122

IsAsciiUpper(c) == c \in 65..90

\* the class  [!@#$%^&*(),.?":{}|<>]
SpecialChars ==
    {33, 64, 35, 36, 37, 94, 38, 42, 40, 41, 44, 46, 63, 34, 58, 123, 125,
     124, 60, 62}

\* c is first, first + step, ... up to last, for a row <<first, last, step>>
InRun(c, row) ==
    /\ row[1] <= c /\ c <= row[2]
    /\ (c - row[1]) % row[3] = 0

\* The simple lower-case mappings of Unicode, in rows <<first, last, step,
\* offset>>: each character of the run maps to itself plus the offset.
LowerTable ==
  <<
    <<65, 90, 1, 32>>, <<192, 214, 1, 32>>, <<216, 222, 1, 32>>,
    <<256, 302, 2, 1>>, <<306, 310, 2, 1>>, <<313, 327, 2, 1>>,
    <<330, 374, 2, 1>>, <<376, 376, 1, 0 - 121>>, <<377, 381, 2, 1>>,
    <<385, 385, 1, 210>>, <<386, 388, 2, 1>>, <<390, 390, 1, 206>>,
    <<391, 391, 1, 1>>, <<393, 394, 1, 205>>, <<395, 395, 1, 1>>,
    <<398, 398, 1, 79>>, <<399, 399, 1, 202>>, <<400, 400, 1, 203>>,
    <<401, 401, 1, 1>>, <<403, 403, 1, 205>>, <<404, 404, 1, 207>>,
    <<406, 406, 1, 211>>, <<407, 407, 1, 209>>, <<408, 408, 1, 1>>,
    <<412, 412, 1, 211>>, <<413, 413, 1, 213>>, <<415, 415, 1, 214>>,
    <<416, 420, 2, 1>>, <<422, 422, 1, 218>>, <<423, 423, 1, 1>>,
    <<425, 425, 1, 218>>, <<428, 428, 1, 1>>, <<430, 430, 1, 218>>,
    <<431, 431, 1, 1>>, <<433, 434, 1, 217>>, <<435, 437, 2, 1>>,
    <<439, 439, 1, 219>>, <<440, 440, 1, 1>>, <<444, 444, 1, 1>>,
    <<452, 452, 1, 2>>, <<453, 453, 1, 1>>, <<455, 455, 1, 2>>,
    <<456, 456, 1, 1>>, <<458, 458, 1, 2>>, <<459, 475, 2, 1>>,
    <<478, 494, 2, 1>>, <<497, 497, 1, 2>>, <<498, 500, 2, 1>>,
    <<502, 502, 1, 0 - 97>>, <<503, 503, 1, 0 - 56>>, <<504, 542, 2, 1>>,
    <<544, 544, 1, 0 - 130>>, <<546, 562, 2, 1>>, <<570, 570, 1, 10795>>,
    <<571, 571, 1, 1>>, <<573, 573, 1, 0 - 163>>, <<574, 574, 1, 10792>>,
    <<577, 577, 1, 1>>, <<579, 579, 1, 0 - 195>>, <<580, 580, 1, 69>>,
    <<581, 581, 1, 71>>, <<582, 590, 2, 1>>, <<880, 882, 2, 1>>,
    <<886, 886, 1, 1>>, <<895, 895, 1, 116>>, <<902, 902, 1, 38>>,
    <<904, 906, 1, 37>>, <<908, 908, 1, 64>>, <<910, 911, 1, 63>>,
    <<913, 929, 1, 32>>, <<931, 939, 1, 32>>, <<975, 975, 1, 8>>,
    <<984, 1006, 2, 1>>, <<1012, 1012, 1, 0 - 60>>, <<1015, 1015, 1, 1>>,
    <<1017, 1017, 1, 0 - 7>>, <<1018, 1018, 1, 1>>,
    <<1021, 1023, 1, 0 - 130>>, <<1024, 1039, 1, 80>>, <<1040, 1071, 1, 32>>,
    <<1120, 1152, 2, 1>>, <<1162, 1214, 2, 1>>, <<1216, 1216, 1, 15>>,
    <<1217, 1229, 2, 1>>, <<1232, 1326, 2, 1>>, <<1329, 1366, 1, 48>>,
    <<4256, 4293, 1, 7264>>, <<4295, 4295, 1, 7264>>, <<4301, 4301, 1, 7264>>,
    <<5024, 5103, 1, 38864>>, <<5104, 5109, 1, 8>>,
    <<7312, 7354, 1, 0 - 3008>>, <<7357, 7359, 1, 0 - 3008>>,
    <<7680, 7828, 2, 1>>, <<7838, 7838, 1, 0 - 7615>>, <<7840, 7934, 2, 1>>,
    <<7944, 7951, 1, 0 - 8>>, <<7960, 7965, 1, 0 - 8>>,
    <<7976, 7983, 1, 0 - 8>>, <<7992, 7999, 1, 0 - 8>>,
    <<8008, 8013, 1, 0 - 8>>, <<8025, 8031, 2, 0 - 8>>,
    <<8040, 8047, 1, 0 - 8>>, <<8072, 8079, 1, 0 - 8>>,
    <<8088, 8095, 1, 0 - 8>>, <<8104, 8111, 1, 0 - 8>>,
    <<8120, 8121, 1, 0 - 8>>, <<8122, 8123, 1, 0 - 74>>,
    <<8124, 8124, 1, 0 - 9>>, <<8136, 8139, 1, 0 - 86>>,
    <<8140, 8140, 1, 0 - 9>>, <<8152, 8153, 1, 0 - 8>>,
    <<8154, 8155, 1, 0 - 100>>, <<8168, 8169, 1, 0 - 8>>,
    <<8170, 8171, 1, 0 - 112>>, <<8172, 8172, 1, 0 - 7>>,
    <<8184, 8185, 1, 0 - 128>>, <<8186, 8187, 1, 0 - 126>>,
    <<8188, 8188, 1, 0 - 9>>, <<8486, 8486, 1, 0 - 7517>>,
    <<8490, 8490, 1, 0 - 8383>>, <<8491, 8491, 1, 0 - 8262>>,
    <<8498, 8498, 1, 28>>, <<8544, 8559, 1, 16>>, <<8579, 8579, 1, 1>>,
    <<9398, 9423, 1, 26>>, <<11264, 11311, 1, 48>>, <<11360, 11360, 1, 1>>,
    <<11362, 11362, 1, 0 - 10743>>, <<11363, 11363, 1, 0 - 3814>>,
    <<11364, 11364, 1, 0 - 10727>>, <<11367, 11371, 2, 1>>,
    <<11373, 11373, 1, 0 - 10780>>, <<11374, 11374, 1, 0 - 10749>>,
    <<11375, 11375, 1, 0 - 10783>>, <<11376, 11376, 1, 0 - 10782>>,
    <<11378, 11378, 1, 1>>, <<11381, 11381, 1, 1>>,
    <<11390, 11391, 1, 0 - 10815>>, <<11392, 11490, 2, 1>>,
    <<11499, 11501, 2, 1>>, <<11506, 11506, 1, 1>>, <<42560, 42604, 2, 1>>,
    <<42624, 42650, 2, 1>>, <<42786, 42798, 2, 1>>, <<42802, 42862, 2, 1>>,
    <<42873, 42875, 2, 1>>, <<42877, 42877, 1, 0 - 35332>>,
    <<42878, 42886, 2, 1>>, <<42891, 42891, 1, 1>>,
    <<42893, 42893, 1, 0 - 42280>>, <<42896, 42898, 2, 1>>,
    <<42902, 42920, 2, 1>>, <<42922, 42922, 1, 0 - 42308>>,
    <<42923, 42923, 1, 0 - 42319>>, <<42924, 42924, 1, 0 - 42315>>,
    <<42925, 42925, 1, 0 - 42305>>, <<42926, 42926, 1, 0 - 42308>>,
    <<42928, 42928, 1, 0 - 42258>>, <<42929, 42929, 1, 0 - 42282>>,
    <<42930, 42930, 1, 0 - 42261>>, <<42931, 42931, 1, 928>>,
    <<42932, 42946, 2, 1>>, <<42948, 42948, 1, 0 - 48>>,
    <<42949, 42949, 1, 0 - 42307>>, <<42950, 42950, 1, 0 - 35384>>,
    <<42951, 42953, 2, 1>>, <<42960, 42960, 1, 1>>, <<42966, 42968, 2, 1>>,
    <<42997, 42997, 1, 1>>, <<65313, 65338, 1, 32>>, <<66560, 66599, 1, 40>>,
    <<66736, 66771, 1, 40>>, <<66928, 66938, 1, 39>>, <<66940, 66954, 1, 39>>,
    <<66956, 66962, 1, 39>>, <<66964, 66965, 1, 39>>, <<68736, 68786, 1, 64>>,
    <<71840, 71871, 1, 32>>, <<93760, 93791, 1, 32>>, <<125184, 125217, 1, 34>>
  >>

\* The characters with the property Cased that are not Case_Ignorable, in
\* rows <<first, last, step>>
CasedTable ==
  <<
    <<65, 90, 1>>, <<97, 122, 1>>, <<170, 170, 1>>, <<181, 181, 1>>,
    <<186, 186, 1>>, <<192, 214, 1>>, <<216, 246, 1>>, <<248, 442, 1>>,
    <<444, 447, 1>>, <<452, 659, 1>>, <<661, 687, 1>>, <<880, 883, 1>>,
    <<886, 887, 1>>, <<891, 893, 1>>, <<895, 895, 1>>, <<902, 904, 2>>,
    <<905, 906, 1>>, <<908, 910, 2>>, <<911, 929, 1>>, <<931, 1013, 1>>,
    <<1015, 1153, 1>>, <<1162, 1327, 1>>, <<1329, 1366, 1>>,
    <<1376, 1416, 1>>, <<4256, 4293, 1>>, <<4295, 4295, 1>>,
    <<4301, 4301, 1>>, <<4304, 4346, 1>>, <<4349, 4351, 1>>,
    <<5024, 5109, 1>>, <<5112, 5117, 1>>, <<7296, 7304, 1>>,
    <<7312, 7354, 1>>, <<7357, 7359, 1>>, <<7424, 7467, 1>>,
    <<7531, 7543, 1>>, <<7545, 7578, 1>>, <<7680, 7957, 1>>,
    <<7960, 7965, 1>>, <<7968, 8005, 1>>, <<8008, 8013, 1>>,
    <<8016, 8023, 1>>, <<8025, 8031, 2>>, <<8032, 8061, 1>>,
    <<8064, 8116, 1>>, <<8118, 8124, 1>>, <<8126, 8126, 1>>,
    <<8130, 8132, 1>>, <<8134, 8140, 1>>, <<8144, 8147, 1>>,
    <<8150, 8155, 1>>, <<8160, 8172, 1>>, <<8178, 8180, 1>>,
    <<8182, 8188, 1>>, <<8450, 8450, 1>>, <<8455, 8455, 1>>,
    <<8458, 8467, 1>>, <<8469, 8469, 1>>, <<8473, 8477, 1>>,
    <<8484, 8490, 2>>, <<8491, 8493, 1>>, <<8495, 8500, 1>>,
    <<8505, 8505, 1>>, <<8508, 8511, 1>>, <<8517, 8521, 1>>,
    <<8526, 8526, 1>>, <<8544, 8575, 1>>, <<8579, 8580, 1>>,
    <<9398, 9449, 1>>, <<11264, 11387, 1>>, <<11390, 11492, 1>>,
    <<11499, 11502, 1>>, <<11506, 11507, 1>>, <<11520, 11557, 1>>,
    <<11559, 11559, 1>>, <<11565, 11565, 1>>, <<42560, 42605, 1>>,
    <<42624, 42651, 1>>, <<42786, 42863, 1>>, <<42865, 42887, 1>>,
    <<42891, 42894, 1>>, <<42896, 42954, 1>>, <<42960, 42961, 1>>,
    <<42963, 42965, 2>>, <<42966, 42969, 1>>, <<42997, 42998, 1>>,
    <<43002, 43002, 1>>, <<43824, 43866, 1>>, <<43872, 43880, 1>>,
    <<43888, 43967, 1>>, <<64256, 64262, 1>>, <<64275, 64279, 1>>,
    <<65313, 65338, 1>>, <<65345, 65370, 1>>, <<66560, 66639, 1>>,
    <<66736, 66771, 1>>, <<66776, 66811, 1>>, <<66928, 66938, 1>>,
    <<66940, 66954, 1>>, <<66956, 66962, 1>>, <<66964, 66965, 1>>,
    <<66967, 66977, 1>>, <<66979, 66993, 1>>, <<66995, 67001, 1>>,
    <<67003, 67004, 1>>, <<68736, 68786, 1>>, <<68800, 68850, 1>>,
    <<71840, 71903, 1>>, <<93760, 93823, 1>>, <<119808, 119892, 1>>,
    <<119894, 119964, 1>>, <<119966, 119967, 1>>, <<119970, 119970, 1>>,
    <<119973, 119974, 1>>, <<119977, 119980, 1>>, <<119982, 119993, 1>>,
    <<119995, 119997, 2>>, <<119998, 120003, 1>>, <<120005, 120069, 1>>,
    <<120071, 120074, 1>>, <<120077, 120084, 1>>, <<120086, 120092, 1>>,
    <<120094, 120121, 1>>, <<120123, 120126, 1>>, <<120128, 120132, 1>>,
    <<120134, 120134, 1>>, <<120138, 120144, 1>>, <<120146, 120485, 1>>,
    <<120488, 120512, 1>>, <<120514, 120538, 1>>, <<120540, 120570, 1>>,
    <<120572, 120596, 1>>, <<120598, 120628, 1>>, <<120630, 120654, 1>>,
    <<120656, 120686, 1>>, <<120688, 120712, 1>>, <<120714, 120744, 1>>,
    <<120746, 120770, 1>>, <<120772, 120779, 1>>, <<122624, 122633, 1>>,
    <<122635, 122654, 1>>, <<125184, 125251, 1>>, <<127280, 127305, 1>>,
    <<127312, 127337, 1>>, <<127344, 127369, 1>>
  >>

\* The characters with the property Case_Ignorable, in rows <<first, last,
\* step>>
CaseIgnorableTable ==
  <<
    <<39, 39, 1>>, <<46, 46, 1>>, <<58, 58, 1>>, <<94, 96, 2>>,
    <<168, 168, 1>>, <<173, 175, 2>>, <<180, 180, 1>>, <<183, 184, 1>>,
    <<688, 879, 1>>, <<884, 885, 1>>, <<890, 890, 1>>, <<900, 901, 1>>,
    <<903, 903, 1>>, <<1155, 1161, 1>>, <<1369, 1369, 1>>, <<1375, 1375, 1>>,
    <<1425, 1469, 1>>, <<1471, 1473, 2>>, <<1474, 1476, 2>>,
    <<1477, 1479, 2>>, <<1524, 1524, 1>>, <<1536, 1541, 1>>,
    <<1552, 1562, 1>>, <<1564, 1564, 1>>, <<1600, 1600, 1>>,
    <<1611, 1631, 1>>, <<1648, 1648, 1>>, <<1750, 1757, 1>>,
    <<1759, 1768, 1>>, <<1770, 1773, 1>>, <<1807, 1809, 2>>,
    <<1840, 1866, 1>>, <<1958, 1968, 1>>, <<2027, 2037, 1>>,
    <<2042, 2042, 1>>, <<2045, 2045, 1>>, <<2070, 2093, 1>>,
    <<2137, 2139, 1>>, <<2184, 2184, 1>>, <<2192, 2193, 1>>,
    <<2200, 2207, 1>>, <<2249, 2306, 1>>, <<2362, 2364, 2>>,
    <<2369, 2376, 1>>, <<2381, 2381, 1>>, <<2385, 2391, 1>>,
    <<2402, 2403, 1>>, <<2417, 2417, 1>>, <<2433, 2433, 1>>,
    <<2492, 2492, 1>>, <<2497, 2500, 1>>, <<2509, 2509, 1>>,
    <<2530, 2531, 1>>, <<2558, 2558, 1>>, <<2561, 2562, 1>>,
    <<2620, 2620, 1>>, <<2625, 2626, 1>>, <<2631, 2632, 1>>,
    <<2635, 2637, 1>>, <<2641, 2641, 1>>, <<2672, 2673, 1>>,
    <<2677, 2677, 1>>, <<2689, 2690, 1>>, <<2748, 2748, 1>>,
    <<2753, 2757, 1>>, <<2759, 2760, 1>>, <<2765, 2765, 1>>,
    <<2786, 2787, 1>>, <<2810, 2815, 1>>, <<2817, 2817, 1>>,
    <<2876, 2876, 1>>, <<2879, 2881, 2>>, <<2882, 2884, 1>>,
    <<2893, 2893, 1>>, <<2901, 2902, 1>>, <<2914, 2915, 1>>,
    <<2946, 2946, 1>>, <<3008, 3008, 1>>, <<3021, 3021, 1>>,
    <<3072, 3072, 1>>, <<3076, 3076, 1>>, <<3132, 3134, 2>>,
    <<3135, 3136, 1>>, <<3142, 3144, 1>>, <<3146, 3149, 1>>,
    <<3157, 3158, 1>>, <<3170, 3171, 1>>, <<3201, 3201, 1>>,
    <<3260, 3260, 1>>, <<3263, 3263, 1>>, <<3270, 3270, 1>>,
    <<3276, 3277, 1>>, <<3298, 3299, 1>>, <<3328, 3329, 1>>,
    <<3387, 3388, 1>>, <<3393, 3396, 1>>, <<3405, 3405, 1>>,
    <<3426, 3427, 1>>, <<3457, 3457, 1>>, <<3530, 3530, 1>>,
    <<3538, 3540, 1>>, <<3542, 3542, 1>>, <<3633, 3633, 1>>,
    <<3636, 3642, 1>>, <<3654, 3662, 1>>, <<3761, 3761, 1>>,
    <<3764, 3772, 1>>, <<3782, 3784, 2>>, <<3785, 3789, 1>>,
    <<3864, 3865, 1>>, <<3893, 3897, 2>>, <<3953, 3966, 1>>,
    <<3968, 3972, 1>>, <<3974, 3975, 1>>, <<3981, 3991, 1>>,
    <<3993, 4028, 1>>, <<4038, 4038, 1>>, <<4141, 4144, 1>>,
    <<4146, 4151, 1>>, <<4153, 4154, 1>>, <<4157, 4158, 1>>,
    <<4184, 4185, 1>>, <<4190, 4192, 1>>, <<4209, 4212, 1>>,
    <<4226, 4226, 1>>, <<4229, 4230, 1>>, <<4237, 4237, 1>>,
    <<4253, 4253, 1>>, <<4348, 4348, 1>>, <<4957, 4959, 1>>,
    <<5906, 5908, 1>>, <<5938, 5939, 1>>, <<5970, 5971, 1>>,
    <<6002, 6003, 1>>, <<6068, 6069, 1>>, <<6071, 6077, 1>>,
    <<6086, 6086, 1>>, <<6089, 6099, 1>>, <<6103, 6103, 1>>,
    <<6109, 6109, 1>>, <<6155, 6159, 1>>, <<6211, 6211, 1>>,
    <<6277, 6278, 1>>, <<6313, 6313, 1>>, <<6432, 6434, 1>>,
    <<6439, 6440, 1>>, <<6450, 6450, 1>>, <<6457, 6459, 1>>,
    <<6679, 6680, 1>>, <<6683, 6683, 1>>, <<6742, 6744, 2>>,
    <<6745, 6750, 1>>, <<6752, 6754, 2>>, <<6757, 6764, 1>>,
    <<6771, 6780, 1>>, <<6783, 6783, 1>>, <<6823, 6823, 1>>,
    <<6832, 6862, 1>>, <<6912, 6915, 1>>, <<6964, 6966, 2>>,
    <<6967, 6970, 1>>, <<6972, 6972, 1>>, <<6978, 6978, 1>>,
    <<7019, 7027, 1>>, <<7040, 7041, 1>>, <<7074, 7077, 1>>,
    <<7080, 7081, 1>>, <<7083, 7085, 1>>, <<7142, 7144, 2>>,
    <<7145, 7145, 1>>, <<7149, 7151, 2>>, <<7152, 7153, 1>>,
    <<7212, 7219, 1>>, <<7222, 7223, 1>>, <<7288, 7293, 1>>,
    <<7376, 7378, 1>>, <<7380, 7392, 1>>, <<7394, 7400, 1>>,
    <<7405, 7405, 1>>, <<7412, 7412, 1>>, <<7416, 7417, 1>>,
    <<7468, 7530, 1>>, <<7544, 7544, 1>>, <<7579, 7679, 1>>,
    <<8125, 8127, 2>>, <<8128, 8129, 1>>, <<8141, 8143, 1>>,
    <<8157, 8159, 1>>, <<8173, 8175, 1>>, <<8189, 8190, 1>>,
    <<8203, 8207, 1>>, <<8216, 8217, 1>>, <<8228, 8228, 1>>,
    <<8231, 8231, 1>>, <<8234, 8238, 1>>, <<8288, 8292, 1>>,
    <<8294, 8303, 1>>, <<8305, 8305, 1>>, <<8319, 8319, 1>>,
    <<8336, 8348, 1>>, <<8400, 8432, 1>>, <<11388, 11389, 1>>,
    <<11503, 11505, 1>>, <<11631, 11631, 1>>, <<11647, 11647, 1>>,
    <<11744, 11775, 1>>, <<11823, 11823, 1>>, <<12293, 12293, 1>>,
    <<12330, 12333, 1>>, <<12337, 12341, 1>>, <<12347, 12347, 1>>,
    <<12441, 12446, 1>>, <<12540, 12542, 1>>, <<40981, 40981, 1>>,
    <<42232, 42237, 1>>, <<42508, 42508, 1>>, <<42607, 42610, 1>>,
    <<42612, 42621, 1>>, <<42623, 42623, 1>>, <<42652, 42655, 1>>,
    <<42736, 42737, 1>>, <<42752, 42785, 1>>, <<42864, 42864, 1>>,
    <<42888, 42890, 1>>, <<42994, 42996, 1>>, <<43000, 43001, 1>>,
    <<43010, 43010, 1>>, <<43014, 43014, 1>>, <<43019, 43019, 1>>,
    <<43045, 43046, 1>>, <<43052, 43052, 1>>, <<43204, 43205, 1>>,
    <<43232, 43249, 1>>, <<43263, 43263, 1>>, <<43302, 43309, 1>>,
    <<43335, 43345, 1>>, <<43392, 43394, 1>>, <<43443, 43443, 1>>,
    <<43446, 43449, 1>>, <<43452, 43453, 1>>, <<43471, 43471, 1>>,
    <<43493, 43494, 1>>, <<43561, 43566, 1>>, <<43569, 43570, 1>>,
    <<43573, 43574, 1>>, <<43587, 43587, 1>>, <<43596, 43596, 1>>,
    <<43632, 43632, 1>>, <<43644, 43644, 1>>, <<43696, 43698, 2>>,
    <<43699, 43700, 1>>, <<43703, 43704, 1>>, <<43710, 43711, 1>>,
    <<43713, 43713, 1>>, <<43741, 43741, 1>>, <<43756, 43757, 1>>,
    <<43763, 43764, 1>>, <<43766, 43766, 1>>, <<43867, 43871, 1>>,
    <<43881, 43883, 1>>, <<44005, 44005, 1>>, <<44008, 44008, 1>>,
    <<44013, 44013, 1>>, <<64286, 64286, 1>>, <<64434, 64450, 1>>,
    <<65024, 65039, 1>>, <<65043, 65043, 1>>, <<65056, 65071, 1>>,
    <<65106, 65106, 1>>, <<65109, 65109, 1>>, <<65279, 65279, 1>>,
    <<65287, 65287, 1>>, <<65294, 65294, 1>>, <<65306, 65306, 1>>,
    <<65342, 65344, 2>>, <<65392, 65392, 1>>, <<65438, 65439, 1>>,
    <<65507, 65507, 1>>, <<65529, 65531, 1>>, <<66045, 66045, 1>>,
    <<66272, 66272, 1>>, <<66422, 66426, 1>>, <<67456, 67461, 1>>,
    <<67463, 67504, 1>>, <<67506, 67514, 1>>, <<68097, 68099, 1>>,
    <<68101, 68102, 1>>, <<68108, 68111, 1>>, <<68152, 68154, 1>>,
    <<68159, 68159, 1>>, <<68325, 68326, 1>>, <<68900, 68903, 1>>,
    <<69291, 69292, 1>>, <<69446, 69456, 1>>, <<69506, 69509, 1>>,
    <<69633, 69633, 1>>, <<69688, 69702, 1>>, <<69744, 69744, 1>>,
    <<69747, 69748, 1>>, <<69759, 69761, 1>>, <<69811, 69814, 1>>,
    <<69817, 69818, 1>>, <<69821, 69821, 1>>, <<69826, 69826, 1>>,
    <<69837, 69837, 1>>, <<69888, 69890, 1>>, <<69927, 69931, 1>>,
    <<69933, 69940, 1>>, <<70003, 70003, 1>>, <<70016, 70017, 1>>,
    <<70070, 70078, 1>>, <<70089, 70092, 1>>, <<70095, 70095, 1>>,
    <<70191, 70193, 1>>, <<70196, 70198, 2>>, <<70199, 70199, 1>>,
    <<70206, 70206, 1>>, <<70367, 70367, 1>>, <<70371, 70378, 1>>,
    <<70400, 70401, 1>>, <<70459, 70460, 1>>, <<70464, 70464, 1>>,
    <<70502, 70508, 1>>, <<70512, 70516, 1>>, <<70712, 70719, 1>>,
    <<70722, 70724, 1>>, <<70726, 70726, 1>>, <<70750, 70750, 1>>,
    <<70835, 70840, 1>>, <<70842, 70842, 1>>, <<70847, 70848, 1>>,
    <<70850, 70851, 1>>, <<71090, 71093, 1>>, <<71100, 71101, 1>>,
    <<71103, 71104, 1>>, <<71132, 71133, 1>>, <<71219, 71226, 1>>,
    <<71229, 71231, 2>>, <<71232, 71232, 1>>, <<71339, 71341, 2>>,
    <<71344, 71349, 1>>, <<71351, 71351, 1>>, <<71453, 71455, 1>>,
    <<71458, 71461, 1>>, <<71463, 71467, 1>>, <<71727, 71735, 1>>,
    <<71737, 71738, 1>>, <<71995, 71996, 1>>, <<71998, 71998, 1>>,
    <<72003, 72003, 1>>, <<72148, 72151, 1>>, <<72154, 72155, 1>>,
    <<72160, 72160, 1>>, <<72193, 72202, 1>>, <<72243, 72248, 1>>,
    <<72251, 72254, 1>>, <<72263, 72263, 1>>, <<72273, 72278, 1>>,
    <<72281, 72283, 1>>, <<72330, 72342, 1>>, <<72344, 72345, 1>>,
    <<72752, 72758, 1>>, <<72760, 72765, 1>>, <<72767, 72767, 1>>,
    <<72850, 72871, 1>>, <<72874, 72880, 1>>, <<72882, 72883, 1>>,
    <<72885, 72886, 1>>, <<73009, 73014, 1>>, <<73018, 73020, 2>>,
    <<73021, 73023, 2>>, <<73024, 73029, 1>>, <<73031, 73031, 1>>,
    <<73104, 73105, 1>>, <<73109, 73111, 2>>, <<73459, 73460, 1>>,
    <<78896, 78904, 1>>, <<92912, 92916, 1>>, <<92976, 92982, 1>>,
    <<92992, 92995, 1>>, <<94031, 94031, 1>>, <<94095, 94111, 1>>,
    <<94176, 94177, 1>>, <<94179, 94180, 1>>, <<110576, 110579, 1>>,
    <<110581, 110587, 1>>, <<110589, 110590, 1>>, <<113821, 113822, 1>>,
    <<113824, 113827, 1>>, <<118528, 118573, 1>>, <<118576, 118598, 1>>,
    <<119143, 119145, 1>>, <<119155, 119170, 1>>, <<119173, 119179, 1>>,
    <<119210, 119213, 1>>, <<119362, 119364, 1>>, <<121344, 121398, 1>>,
    <<121403, 121452, 1>>, <<121461, 121461, 1>>, <<121476, 121476, 1>>,
    <<121499, 121503, 1>>, <<121505, 121519, 1>>, <<122880, 122886, 1>>,
    <<122888, 122904, 1>>, <<122907, 122913, 1>>, <<122915, 122916, 1>>,
    <<122918, 122922, 1>>, <<123184, 123197, 1>>, <<123566, 123566, 1>>,
    <<123628, 123631, 1>>, <<125136, 125142, 1>>, <<125252, 125259, 1>>,
    <<127995, 127999, 1>>, <<917505, 917505, 1>>, <<917536, 917631, 1>>,
    <<917760, 917999, 1>>
  >>

IsCased(c) == \E i \in 1..Len(CasedTable) : InRun(c, CasedTable[i])

IsCaseIgnorable(c) ==
    \E i \in 1..Len(CaseIgnorableTable) : InRun(c, CaseIgnorableTable[i])

\* str.lower() of one character on its own: a str, since it can grow (U+0130
\* becomes i followed by a combining dot)
LowerChar(c) ==
    IF c < 128 THEN (IF c \in 65..90 THEN <<c + 32>> ELSE <<c>>)
    ELSE IF c = 304 THEN <<105, 775>>
    ELSE LET rows == {i \in 1..Len(LowerTable) : InRun(c, LowerTable[i])}
         IN  IF rows = {} THEN <<c>>
             ELSE <<c + LowerTable[CHOOSE i \in rows : TRUE][4]>>

\* the capital sigma at s[i] is final: the nearest character before it that
\* is not case-ignorable is cased, and the nearest such character after it,
\* if there is one, is not cased
FinalSigma(s, i) ==
    LET before == {j \in 1..(i - 1) : ~IsCaseIgnorable(s[j])}
        after == {j \in (i + 1)..Len(s) : ~IsCaseIgnorable(s[j])}
    IN  /\ before # {}
        /\ IsCased(s[CHOOSE j \in before : \A k \in before : k <= j])
        /\ \/ after = {}
           \/ ~IsCased(s[CHOOSE j \in after : \A k \in after : j <= k])

\* str.lower(): character by character, except that a final capital sigma
\* (U+03A3) becomes the final small sigma (U+03C2)
Lower(s) ==
    Flatten([i \in 1..Len(s) |->
                IF s[i] = 931 /\ FinalSigma(s, i) THEN <<962>>
                ELSE LowerChar(s[i])])

\* str.upper() of one character, for the characters hexdigest() can write
\* (and the other ASCII letters)
UpperChar(c) == IF c \in 97..122 THEN c - 32 ELSE c

Upper(s) == [i \in 1..Len(s) |-> UpperChar(s[i])]

(***************************************************************************)
(* PasswordChecker.__init__                                                *)
(***************************************************************************)
\* self.common_passwords
load_common_passwords ==
    {
      <<49, 50, 51, 52, 53, 54>>,                            \* 123456
      <<112, 97, 115, 115, 119, 111, 114, 100>>,             \* password
      <<49, 50, 51, 52, 53, 54, 55, 56>>,                    \* 12345678
      <<113, 119, 101, 114, 116, 121>>,                      \* qwerty
      <<49, 50, 51, 52, 53, 54, 55, 56, 57>>,                \* 123456789
      <<49, 50, 51, 52, 53>>,                                \* 12345
      <<49, 50, 51, 52>>,                                    \* 1234
      <<49, 49, 49, 49, 49, 49>>,                            \* 111111
      <<49, 50, 51, 52, 53, 54, 55>>,                        \* 1234567
      <<100, 114, 97, 103, 111, 110>>,                       \* dragon
      <<49, 50, 51, 49, 50, 51>>,                            \* 123123
      <<98, 97, 115, 101, 98, 97, 108, 108>>,                \* baseball
      <<97, 98, 99, 49, 50, 51>>,                            \* abc123
      <<102, 111, 111, 116, 98, 97, 108, 108>>,              \* football
      <<109, 111, 110, 107, 101, 121>>,                      \* monkey
      <<108, 101, 116, 109, 101, 105, 110>>,                 \* letmein
      <<115, 104, 97, 100, 111, 119>>,                       \* shadow
      <<109, 97, 115, 116, 101, 114>>,                       \* master
      <<54, 54, 54, 54, 54, 54>>,                            \* 666666
      <<113, 119, 101, 114, 116, 121, 117, 105, 111, 112>>,  \* qwertyuiop
      <<49, 50, 51, 51, 50, 49>>,                            \* 123321
      <<109, 117, 115, 116, 97, 110, 103>>,                  \* mustang
      <<49, 50, 51, 52, 53, 54, 55, 56, 57, 48>>,            \* 1234567890
      <<109, 105, 99, 104, 97, 101, 108>>,                   \* michael
      <<115, 117, 112, 101, 114, 109, 97, 110>>              \* superman
    }

\* self.api_url = "https://api.pwnedpasswords.com/range/"
api_url ==
    <<
       104, 116, 116, 112, 115, 58, 47, 47, 97, 112, 105, 46,
       112, 119, 110, 101, 100, 112, 97, 115, 115, 119, 111, 114,
       100, 115, 46, 99, 111, 109, 47, 114, 97, 110, 103, 101,
       47
    >>

(***************************************************************************)
(* calculate_password_strength.  The findings are named "+ ..." where the  *)
(* source appends a line starting with a check mark and "- ..." where it   *)
(* appends one starting with a cross.                                      *)
(***************************************************************************)
HasDigit(password) == \E i \in 1..Len(password) : IsDigit(password[i])

HasLower(password) == \E i \in 1..Len(password) : IsAsciiLower(password[i])

HasUpper(password) == \E i \in 1..Len(password) : IsAsciiUpper(password[i])

HasSpecial(password) == \E i \in 1..Len(password) : password[i] \in SpecialChars

\* a variant with the upper boundary off by one
LengthCriterion_Over12(password) ==
    IF Len(password) > 12 THEN <<3, <<"+ length excellent (12+)">> >>
    ELSE IF Len(password) >= 8 THEN <<2, <<"+ length good (8+)">> >>
    ELSE <<0, <<"- too short (8+ recommended)">> >>

\* criterion 1: <<points, finding>>
LengthCriterion(password) ==
    IF Len(password) >= 12 THEN <<3, <<"+ length excellent (12+)">> >>
    ELSE IF Len(password) >= 8 THEN <<2, <<"+ length good (8+)">> >>
    ELSE <<0, <<"- too short (8+ recommended)">> >>

\* criterion 2
DigitCriterion(password) ==
    IF HasDigit(password) THEN <<1, <<"+ has digits">> >>
    ELSE <<0, <<"- add digits">> >>

\* criterion 3: a letter-free password adds no finding
CaseCriterion(password) ==
    IF HasLower(password) /\ HasUpper(password)
    THEN <<2, <<"+ mixed case">> >>
    ELSE IF HasLower(password) \/ HasUpper(password)
    THEN <<1, <<"- add letters of both cases">> >>
    ELSE <<0, <<>> >>

\* criterion 4
SpecialCriterion(password) ==
    IF HasSpecial(password) THEN <<2, <<"+ has special characters">> >>
    ELSE <<0, <<"- add special characters">> >>

\* a variant that forgets .lower()
IsCommon_CaseSensitive(password) == password \in load_common_passwords

\* criterion 5: password.lower() in self.common_passwords
IsCommon(password) == Lower(password) \in load_common_passwords

\* a variant with the first threshold off by one
StrengthLevel_Over8(score) ==
    IF score > 8 THEN <<"Excellent", "green">>
    ELSE IF score >= 5 THEN <<"Good", "yellow">>
    ELSE IF score >= 3 THEN <<"Medium", "orange">>
    ELSE <<"Weak", "red">>

\* the level and its colour, from the final score
StrengthLevel(score) ==
    IF score >= 8 THEN <<"Excellent", "green">>
    ELSE IF score >= 5 THEN <<"Good", "yellow">>
    ELSE IF score >= 3 THEN <<"Medium", "orange">>
    ELSE <<"Weak", "red">>

calculate_password_strength(password) ==
    LET c1 == LengthCriterion(password)
        c2 == DigitCriterion(password)
        c3 == CaseCriterion(password)
        c4 == SpecialCriterion(password)
        sum == c1[1] + c2[1] + c3[1] + c4[1]
        found == c1[2] \o c2[2] \o c3[2] \o c4[2]
        common == IsCommon(password)
        score == IF common THEN 0 ELSE sum
        feedback == IF common THEN Append(found, "- in the list of weakest passwords")
                    ELSE found
        level == StrengthLevel(score)
    IN  [score |-> score, max_score |-> 10, strength |-> level[1],
         color |-> level[2], feedback |-> feedback, length |-> Len(password)]

(***************************************************************************)
(* generate_recommendations                                                *)
(***************************************************************************)
\* a variant that warns on is_pwned alone
generate_recommendations_AnyCount(analysis, is_pwned, pwned_count) ==
    (IF is_pwned
        THEN << <<"URGENT: found in breaches", pwned_count>> >> ELSE <<>>)
    \o (IF analysis.length < 8
        THEN << <<"increase length to at least 12, now", analysis.length>> >>
        ELSE <<>>)
    \o (IF analysis.score < 5
        THEN << <<"combine upper + lower + digits + special">> >> ELSE <<>>)
    \o << <<"do not reuse one password on several sites">>,
          <<"consider a password manager">> >>

generate_recommendations(analysis, is_pwned, pwned_count) ==
    (IF is_pwned /\ pwned_count > 0
        THEN << <<"URGENT: found in breaches", pwned_count>> >> ELSE <<>>)
    \o (IF analysis.length < 8
        THEN << <<"increase length to at least 12, now", analysis.length>> >>
        ELSE <<>>)
    \o (IF analysis.score < 5
        THEN << <<"combine upper + lower + digits + special">> >> ELSE <<>>)
    \o << <<"do not reuse one password on several sites">>,
          <<"consider a password manager">> >>

(***************************************************************************)
(* The str methods check_pwned_api uses on the response.                   *)
(***************************************************************************)
\* the k-th smallest element of a set of numbers, k from 1
Nth(S, k) == CHOOSE e \in S : Cardinality({f \in S : f < e}) = k - 1

\* the line boundaries of str.splitlines()
LineBreaks == {10, 11, 12, 13, 28, 29, 30, 133, 8232, 8233}

\* str.splitlines(): the lines without their terminators; "\r\n" is one
\* terminator, and a terminator at the very end opens no further line
SplitLines(text) ==
    LET ends == {i \in 1..Len(text) :
                    /\ text[i] \in LineBreaks
                    /\ ~(text[i] = 13 /\ i < Len(text) /\ text[i + 1] = 10)}
        n == Cardinality(ends)
        last == IF n = 0 THEN 0 ELSE Nth(ends, n)
        line(k) ==
            LET e == Nth(ends, k)
                from == IF k = 1 THEN 1 ELSE Nth(ends, k - 1) + 1
                to == IF text[e] = 10 /\ e > from /\ text[e - 1] = 13
                      THEN e - 2 ELSE e - 1
            IN  SubSeq(text, from, to)
    IN  [k \in 1..n |-> line(k)]
        \o (IF last < Len(text) THEN <<SubSeq(text, last + 1, Len(text))>>
            ELSE <<>>)

\* line.split(':'): the pieces between the colons, one more than the colons
SplitColon(line) ==
    LET at == {i \in 1..Len(line) : line[i] = 58}
        n == Cardinality(at)
        piece(k) ==
            SubSeq(line,
                   IF k = 1 THEN 1 ELSE Nth(at, k - 1) + 1,
                   IF k = n + 1 THEN Len(line) ELSE Nth(at, k) - 1)
    IN  [k \in 1..(n + 1) |-> piece(k)]

\* the characters int() drops at both ends of its argument.  U+001C..U+001F
\* are not among them: U+001F inside a line makes the count unparsable.
Whitespace == {9, 10, 11, 12, 13, 32, 133, 160, 5760, 8192, 8193, 8194, 8195,
               8196, 8197, 8198, 8199, 8200, 8201, 8202, 8232, 8233, 8239,
               8287, 12288}

\* s without the whitespace at its front, at its back
RECURSIVE LStrip(_)
LStrip(s) ==
    IF s # <<>> /\ s[1] \in Whitespace THEN LStrip(Tail(s)) ELSE s

RECURSIVE RStrip(_)
RStrip(s) ==
    IF s # <<>> /\ s[Len(s)] \in Whitespace
    THEN RStrip(SubSeq(s, 1, Len(s) - 1)) ELSE s

Strip(s) == RStrip(LStrip(s))

\* the value of a decimal digit character
DigitValue(c) ==
    IF c < 128 THEN c - 48
    ELSE LET i == CHOOSE j \in 1..Len(DecimalDigitRanges) :
                    c \in DecimalDigitRanges[j][1]..DecimalDigitRanges[j][2]
         IN  (c - DecimalDigitRanges[i][1]) % 10

RECURSIVE DecimalValue(_)
DecimalValue(digits) ==
    IF digits = <<>> THEN 0
    ELSE 10 * DecimalValue(SubSeq(digits, 1, Len(digits) - 1))
         + DigitValue(digits[Len(digits)])

\* sys.get_int_max_str_digits(): int() refuses a str with more digits
MaxStrDigits == 4300

\* int(s) for a str: optional surrounding whitespace, an optional sign, then
\* decimal digits of any script, single underscores allowed between digits,
\* at most MaxStrDigits digits (leading zeros count).  [ok |-> FALSE] stands
\* for ValueError.  The counts of the model are small numbers; a value past
\* 2^31 - 1 is not represented.
ParseInt(s) ==
    LET t == Strip(s)
        signed == t # <<>> /\ t[1] \in {43, 45}
        body == IF signed THEN Tail(t) ELSE t
        wellFormed ==
            /\ body # <<>>
            /\ \A i \in 1..Len(body) :
                \/ IsDigit(body[i])
                \/ /\ body[i] = 95
                   /\ 1 < i /\ i < Len(body)
                   /\ IsDigit(body[i - 1]) /\ IsDigit(body[i + 1])
        digits == SelectSeq(body, IsDigit)
    IN  IF ~wellFormed \/ Len(digits) > MaxStrDigits
        THEN [ok |-> FALSE, value |-> 0]
        ELSE [ok |-> TRUE,
              value |-> IF signed /\ t[1] = 45 THEN 0 - DecimalValue(digits)
                        ELSE DecimalValue(digits)]

(***************************************************************************)
(* check_pwned_api, in its two halves: up to the GET, and from the         *)
(* transport's answer on.                                                  *)
(***************************************************************************)
\* line 96: hashlib.sha1(password.encode('utf-8')).hexdigest().upper(), or
\* the exception of encode()
Sha1Hash(password) ==
    LET encoded == Utf8(password)
    IN  IF encoded.raises # "none"
        THEN [raises |-> encoded.raises, value |-> <<>>]
        ELSE [raises |-> "none", value |-> Upper(HexDigest(encoded.value))]

\* a variant that hands the whole hash on
HashPrefix_WholeHash(sha1_hash) == sha1_hash

HashPrefix(sha1_hash) == SubSeq(sha1_hash, 1, 5)

HashSuffix(sha1_hash) == SubSeq(sha1_hash, 6, Len(sha1_hash))

\* line 101: the URL of the GET
RequestUrl(prefix) == api_url \o prefix

\* lines 103-107: the scan of a 200 body.  The generator splits a line only
\* when the loop reaches it, so nothing after the line that ends the loop is
\* looked at.  The loop ends at the first line that does not unpack into
\* two pieces (ValueError) or whose first piece is the suffix.
ScanBody(text, suffix) ==
    LET lines == SplitLines(text)
        stops == {i \in 1..Len(lines) :
                    \/ Len(SplitColon(lines[i])) # 2
                    \/ SplitColon(lines[i])[1] = suffix}
    IN  IF stops = {} THEN [raises |-> "none", value |-> <<FALSE, 0>>]
        ELSE LET pieces == SplitColon(lines[Nth(stops, 1)])
             IN  IF Len(pieces) # 2
                 THEN [raises |-> "ValueError", value |-> <<>>]
                 ELSE LET count == ParseInt(pieces[2])
                      IN  IF count.ok
                          THEN [raises |-> "none", value |-> <<TRUE, count.value>>]
                          ELSE [raises |-> "ValueError", value |-> <<>>]

\* lines 102-109: what check_pwned_api does with the outcome of the GET.
\* reply.kind is "response" (with status_code and text) or "exception"
\* (a requests.RequestException: connection error or timeout).
PwnedOutcome(reply, suffix) ==
    IF reply.kind = "exception"
    THEN [raises |-> "none", value |-> <<FALSE, 0 - 1>>]
    ELSE IF reply.status_code = 200 THEN ScanBody(reply.text, suffix)
    ELSE [raises |-> "none", value |-> <<FALSE, 0>>]

(***************************************************************************)
(* Inputs.                                                                 *)
(***************************************************************************)
\* what the user types at the prompt of main()
TypedInputs ==
    {
      <<101, 120, 105, 116>>,                                 \* "exit"
      <<69, 120, 105, 116>>,                                  \* "Exit"
      <<>>,                                                   \* ""
      <<112, 97, 115, 115, 119, 111, 114, 100>>,              \* "password"
      <<80, 97, 115, 115, 87, 111, 114, 100>>,                \* "PassWord"
      <<49, 50, 51, 52, 53, 54>>,                             \* "123456"
      <<80, 64, 115, 115, 119, 48, 114, 100>>,                \* "P@ssw0rd"
      \* Tr0ub4dor&3XQ!
      <<84, 114, 48, 117, 98, 52, 100, 111, 114, 38, 51, 88, 81, 33>>,
      <<65, 98, 49, 33>>,                                     \* "Ab1!"
      \* qwertyuiopas
      <<113, 119, 101, 114, 116, 121, 117, 105, 111, 112, 97, 115>>,
      \* Кот!Любит2Спать#На$Диване
      <<1050, 1086, 1090, 33, 1051, 1102, 1073, 1080, 1090, 50, 1057, 1087,
        1072, 1090, 1100, 35, 1053, 1072, 36, 1044, 1080, 1074, 1072, 1085,
        1077>>,
      \* "\udc80abc": input() decodes the byte 0x80 to a lone surrogate
      <<56448, 97, 98, 99>>
    }

\* bounds of the response bodies: the number of records in a body, and the
\* counts 0..MaxCount a record can carry
MaxRecords == 2

MaxCount == 2

\* a non-negative number in decimal, as the service writes a count
RECURSIVE Decimal(_)
Decimal(n) ==
    IF n < 10 THEN <<48 + n>> ELSE Append(Decimal(n \div 10), 48 + (n % 10))

\* a suffix no password of the model hashes to:
\* "0018A45C4D1DEF81644B54AB7F969B88D65"
OtherSuffix == 
    <<48, 48, 49, 56, 65, 52, 53, 67, 52, 68, 49, 68, 69, 70, 56, 49, 54, 52, 52, 66, 53, 52, 65,
      66, 55, 70, 57, 54, 57, 66, 56, 56, 68, 54, 53>>

\* the count fields of the records that carry the password's suffix:
\* decimal counts, "-5", "abc", " 12", the empty string, "5" followed by
\* U+001F, and the Bengali digit zero
CountTexts ==
    {Decimal(n) : n \in 0..MaxCount}
    \cup {<<45, 53>>, <<97, 98, 99>>, <<32, 49, 50>>, <<>>, <<53, 31>>,
          <<2534>>}

\* the lines a body is made of, for a password with this suffix
BodyLines(suffix) ==
    {suffix \o <<58>> \o c : c \in CountTexts}
    \cup {OtherSuffix \o <<58, 55>>,            \* another suffix, count 7
          OtherSuffix \o <<58, 120>>,           \* another suffix, count "x"
          Lower(suffix) \o <<58, 52>>,          \* the suffix in lowercase
          OtherSuffix,                          \* no colon
          suffix \o <<58, 51, 58, 49>>,         \* two colons
          <<>>}                                 \* an empty line

\* the line terminators of a body: "\n" and "\r\n"
Terminators == {<<10>>, <<13, 10>>}

\* the text of a body: the lines, each followed by the terminator, the last
\* one only if closed
BodyText(lines, term, closed) ==
    LET n == Len(lines)
    IN  Flatten([i \in 1..n |->
                    IF i < n \/ closed THEN lines[i] \o term ELSE lines[i]])

\* bodies of up to MaxRecords lines, and the body of one record whose count
\* has one digit more than int() accepts
BodyTexts(suffix) ==
    {BodyText(lines, term, closed) :
        lines \in UNION {[1..n -> BodyLines(suffix)] : n \in 0..MaxRecords},
        term \in Terminators, closed \in BOOLEAN}
    \cup {suffix \o <<58>> \o Repeat(49, MaxStrDigits + 1)}

StatusCodes == {200, 404, 429, 503}

\* the bodies the service may send with a status: any body with 200, an
\* empty body or one matching record with the others
ReplyTexts(status, suffix) ==
    IF status = 200 THEN BodyTexts(suffix)
    ELSE {<<>>, BodyText(<<suffix \o <<58, 51>> >>, <<10>>, TRUE)}

(***************************************************************************)
(* The program: main() calling check_password for each password typed.     *)
(*                                                                         *)
(* pc              where main() stands                                     *)
(* password        the argument of check_password                          *)
(* analysis        <<the dict calculate_password_strength returned>>       *)
(* request         the URL of the GET in flight                            *)
(* suffix          check_pwned_api's local variable                        *)
(* reply           <<what the transport answered>>                         *)
(* result          (is_pwned, pwned_count)                                 *)
(* raised          the exception on its way out, or "none"                 *)
(* breach_line     which of the three breach lines check_password printed  *)
(* recommendations the list generate_recommendations returned              *)
(* <<>> stands for a value not there (yet).                                *)
(*                                                                         *)
(* Every print() writes to stdout and can raise: UnicodeEncodeError when   *)
(* the encoding of stdout has no code for a character of the text (the     *)
(* Cyrillic letters, the marks of the findings and of the breach lines),   *)
(* BrokenPipeError when the reader of stdout is gone, another OSError when *)
(* the write fails.  Whether a print succeeds is not in the program's      *)
(* hands, so each step that prints has both outcomes.                      *)
(***************************************************************************)
VARIABLES pc, password, analysis, request, suffix, reply, result, raised,
          breach_line, recommendations

vars == <<pc, password, analysis, request, suffix, reply, result, raised,
          breach_line, recommendations>>

\* the exceptions a print() raises
PrintExceptions == {"UnicodeEncodeError", "BrokenPipeError", "OSError"}

\* the outcome of the prints of a step: all written, or the exception of the
\* first that failed
PrintOutcomes == {"none"} \cup PrintExceptions

\* main() is entered
Init ==
    /\ pc = "start"
    /\ password = <<>>
    /\ analysis = <<>>
    /\ request = <<>>
    /\ suffix = <<>>
    /\ reply = <<>>
    /\ result = <<>>
    /\ raised = "none"
    /\ breach_line = "none"
    /\ recommendations = <<>>

\* nothing of an earlier check_password call is left when the next starts
ForgetLocals ==
    /\ analysis' = <<>>
    /\ request' = <<>>
    /\ suffix' = <<>>
    /\ reply' = <<>>
    /\ result' = <<>>
    /\ breach_line' = "none"
    /\ recommendations' = <<>>

ForgetLastCheck ==
    /\ ForgetLocals
    /\ raised' = "none"

\* main(), lines 176-186: the banner and the checker.  These prints are
\* outside the try: an exception of theirs ends the program.
Banner(printed) ==
    /\ pc = "start"
    /\ pc' = IF printed = "none" THEN "prompt" ELSE "crashed"
    /\ raised' = printed
    /\ UNCHANGED <<password, analysis, request, suffix, reply, result,
                   breach_line, recommendations>>

\* main(), lines 190-202: the prompt is printed and one line is read; 'exit'
\* in any case ends the program, an empty line is refused, anything else
\* goes to check_password.  When the print of line 190, 195 or 199 raises,
\* the handler of main() takes over: no exit, no check.
ReadPassword(typed, printed) ==
    /\ pc \in {"prompt", "refused"}
    /\ pc' = IF printed # "none" THEN "except"
             ELSE IF Lower(typed) = <<101, 120, 105, 116>> THEN "exited"
             ELSE IF typed = <<>> THEN "refused"
             ELSE "analyse"
    /\ password' = IF pc' = "analyse" THEN typed ELSE <<>>
    /\ raised' = printed
    /\ ForgetLocals

\* check_password, lines 132-146: the heading, calculate_password_strength,
\* the score and the findings.  A print that raises leaves check_password:
\* one of the heading (lines 132-134) before the analysis is there, one of
\* the score (lines 140-146) after.
AnalysePassword(stage, printed) ==
    /\ pc = "analyse"
    /\ analysis' = IF printed # "none" /\ stage = "heading" THEN <<>>
                   ELSE <<calculate_password_strength(password)>>
    /\ pc' = IF printed = "none" THEN "lookup" ELSE "except"
    /\ raised' = printed
    /\ UNCHANGED <<password, request, suffix, reply, result, breach_line,
                   recommendations>>

\* check_pwned_api, lines 96-101: the hash, its two parts, the GET.  When
\* encode() raises, nothing is requested: UnicodeEncodeError is not a
\* RequestException, it leaves check_pwned_api and check_password.
SendRequest ==
    /\ pc = "lookup"
    /\ LET sha1_hash == Sha1Hash(password)
       IN  IF sha1_hash.raises = "none"
           THEN /\ request' = RequestUrl(HashPrefix(sha1_hash.value))
                /\ suffix' = HashSuffix(sha1_hash.value)
                /\ raised' = "none"
                /\ pc' = "waiting"
           ELSE /\ request' = <<>>
                /\ suffix' = <<>>
                /\ raised' = sha1_hash.raises
                /\ pc' = "except"
    /\ UNCHANGED <<password, analysis, reply, result, breach_line,
                   recommendations>>

\* check_pwned_api, lines 102-109, on the outcome r of the GET
Complete(r) ==
    LET out == PwnedOutcome(r, suffix)
    IN  /\ reply' = <<r>>
        /\ raised' = out.raises
        /\ result' = out.value
        /\ pc' = IF out.raises = "none" THEN "report" ELSE "except"
        /\ UNCHANGED <<password, analysis, request, suffix, breach_line,
                       recommendations>>

\* the service answers
ReceiveResponse(status) ==
    /\ pc = "waiting"
    /\ \E text \in ReplyTexts(status, suffix) :
          Complete([kind |-> "response", status_code |-> status,
                    text |-> text])

\* the GET raises a requests.RequestException
RequestFails(exc) ==
    /\ pc = "waiting"
    /\ Complete([kind |-> "exception", status_code |-> 0, text |-> exc])

\* the places of check_password, after check_pwned_api, where a print can
\* raise: the breach line (150, 152 or 154), the heading of the
\* recommendations (157-159), the list and the sample (163-171)
ReportStages == {"breach line", "heading", "list"}

\* check_password, lines 149-171: the breach line, the recommendations, the
\* sample.  A print that raises leaves check_password with what was done
\* before it: at the breach line nothing, at the heading the breach line,
\* at the list the breach line and the call of generate_recommendations.
Report(stage, printed) ==
    /\ pc = "report"
    /\ breach_line' = IF printed # "none" /\ stage = "breach line" THEN "none"
                      ELSE IF result[1] THEN "found"
                      ELSE IF result[2] = 0 - 1 THEN "unavailable"
                      ELSE "not found"
    /\ recommendations' =
            IF printed # "none" /\ stage \in {"breach line", "heading"}
            THEN <<>>
            ELSE generate_recommendations(analysis[1], result[1], result[2])
    /\ pc' = IF printed = "none" THEN "reported" ELSE "except"
    /\ raised' = printed
    /\ UNCHANGED <<password, analysis, request, suffix, reply, result>>

\* main(), lines 204-211 and back to line 190: check_password has returned
\* and its locals are gone; a print that raises goes to the handler
NextPrompt(printed) ==
    /\ pc = "reported"
    /\ pc' = IF printed = "none" THEN "prompt" ELSE "except"
    /\ password' = <<>>
    /\ raised' = printed
    /\ ForgetLocals

\* main(), lines 216-218: an exception out of the loop body is printed and
\* the loop goes on; the rest of check_password did not run.  The prints of
\* the handler are not guarded: an exception of theirs ends the program.
MainExcept(printed) ==
    /\ pc = "except"
    /\ pc' = IF printed = "none" THEN "prompt" ELSE "crashed"
    /\ password' = <<>>
    /\ raised' = printed
    /\ ForgetLocals

\* the exceptions input() raises on line 191: EOFError at the end of the
\* input, UnicodeDecodeError for a byte the strict decoder of stdin refuses
\* (under surrogateescape the same byte arrives as a lone surrogate, see
\* TypedInputs), RuntimeError when stdin or stdout is lost, and those of
\* writing the prompt
InputExceptions ==
    {"EOFError", "UnicodeDecodeError", "RuntimeError"} \cup PrintExceptions

\* main(), line 191 and lines 216-218: input() raises, check_password is not
\* called, the handler of main() prints the exception
InputRaises(exc) ==
    /\ pc \in {"prompt", "refused"}
    /\ pc' = "except"
    /\ password' = <<>>
    /\ raised' = exc
    /\ ForgetLocals

\* main(), lines 213-215: an interrupt from the keyboard.  It is raised
\* where the interpreter next looks for signals.  Inside the try the handler
\* of line 213 catches it and the loop ends.  Nothing catches it before the
\* loop (the banner), in the handler of another exception, or at the jump
\* back to line 188 (after line 199, 211 or 218), which stands outside the
\* try: there it ends the program.  So does an exception of the print of
\* line 214, a second interrupt included.
KeyboardInterrupt(at_jump, printed) ==
    LET uncaught == \/ pc \in {"start", "except"}
                    \/ at_jump /\ pc \in {"prompt", "refused"}
    IN  /\ pc \notin {"exited", "crashed"}
        /\ pc' = IF uncaught \/ printed # "none" THEN "crashed" ELSE "exited"
        /\ raised' = IF uncaught THEN "KeyboardInterrupt" ELSE printed
        /\ password' = <<>>
        /\ ForgetLocals

Next ==
    \/ \E printed \in PrintOutcomes : Banner(printed)
    \/ \E typed \in TypedInputs, printed \in PrintOutcomes :
          ReadPassword(typed, printed)
    \/ \E exc \in InputExceptions : InputRaises(exc)
    \/ \E stage \in {"heading", "score"}, printed \in PrintOutcomes :
          AnalysePassword(stage, printed)
    \/ SendRequest
    \/ \E status \in StatusCodes : ReceiveResponse(status)
    \/ \E exc \in {"ConnectionError", "Timeout"} : RequestFails(exc)
    \/ \E stage \in ReportStages, printed \in PrintOutcomes :
          Report(stage, printed)
    \/ \E printed \in PrintOutcomes : NextPrompt(printed)
    \/ \E printed \in PrintOutcomes : MainExcept(printed)
    \/ \E at_jump \in BOOLEAN,
          printed \in PrintOutcomes \cup {"KeyboardInterrupt"} :
          KeyboardInterrupt(at_jump, printed)

Spec == Init /\ [][Next]_vars

(***************************************************************************)
(* The two pure methods called directly, on more inputs than main() is     *)
(* given above: calculate_password_strength on any str (the empty one      *)
(* too), generate_recommendations on its result and any (bool, int).       *)
(***************************************************************************)
\* one character of each kind: a, Z, 5, !, a space, Cyrillic ya in both
\* cases, and the Arabic-Indic digit three
KindChars == <<97, 90, 53, 33, 32, 1103, 1071, 1635>>

\* passwords are some of KindChars followed by up to MaxPad underscores
MaxPad == 12

\* a blocklist entry with its first letter in upper case
Capitalize(s) == IF s = <<>> THEN s ELSE <<UpperChar(s[1])>> \o Tail(s)

DirectInputs ==
    {SelectSeq(KindChars, LAMBDA c : c \in kinds) \o Repeat(95, pad) :
        kinds \in SUBSET Range(KindChars), pad \in 0..MaxPad}
    \cup load_common_passwords
    \cup {Upper(w) : w \in load_common_passwords}
    \cup {Capitalize(w) : w \in load_common_passwords}
    \cup {w \o <<33>> : w \in load_common_passwords}
    \cup {<<109, 111, 110, 8490, 101, 121>>}   \* "mon", Kelvin sign, "ey"
    \cup TypedInputs

DirectCounts == {0 - 5, 0 - 1} \cup (0..MaxCount)

InitDirect ==
    /\ pc = "call"
    /\ password \in DirectInputs
    /\ analysis = <<>>
    /\ request = <<>>
    /\ suffix = <<>>
    /\ reply = <<>>
    /\ result = <<>>
    /\ raised = "none"
    /\ breach_line = "none"
    /\ recommendations = <<>>

DirectStrength ==
    /\ pc = "call"
    /\ analysis' = <<calculate_password_strength(password)>>
    /\ pc' = "scored"
    /\ UNCHANGED <<password, request, suffix, reply, result, raised,
                   breach_line, recommendations>>

DirectRecommend(is_pwned, pwned_count) ==
    /\ pc = "scored"
    /\ result' = <<is_pwned, pwned_count>>
    /\ recommendations' =
            generate_recommendations(analysis[1], is_pwned, pwned_count)
    /\ pc' = "advised"
    /\ UNCHANGED <<password, analysis, request, suffix, reply, raised,
                   breach_line>>

NextDirect ==
    \/ DirectStrength
    \/ \E is_pwned \in BOOLEAN, pwned_count \in DirectCounts :
          DirectRecommend(is_pwned, pwned_count)

SpecDirect == InitDirect /\ [][NextDirect]_vars

(***************************************************************************)
(* Properties.                                                             *)
(***************************************************************************)
\* the reply of the transport, once there is one
Replied == reply # <<>>

Got200 == Replied /\ reply[1].kind = "response" /\ reply[1].status_code = 200

\* C1: the requested URL is api_url followed by the first 5 characters of
\* the uppercase 40-character SHA-1 hex digest of the password's UTF-8
\* bytes, each in 0-9A-F; it is a function of the password alone; and
\* neither the plaintext, nor the 35-character suffix, nor the whole digest
\* is part of the request.  For a password that has no UTF-8 encoding there
\* is no request at all.
C1_OnlyThePrefixIsSent ==
    /\ Utf8(password).raises # "none" => request = <<>>
    /\ pc = "waiting" =>
        LET digest == Upper(HexDigest(Utf8(password).value))
            sent == SubSeq(request, Len(api_url) + 1, Len(request))
        IN  /\ Len(digest) = 40
            /\ request = api_url \o SubSeq(digest, 1, 5)
            /\ Len(sent) = 5
            /\ \A i \in 1..Len(sent) : sent[i] \in (48..57) \cup (65..70)
            /\ ~Contains(sent, password)
            /\ ~Contains(request, SubSeq(digest, 6, 40))
            /\ ~Contains(request, digest)

\* "password" is in flight as .../range/5BAA6
C1_Witness ==
    /\ pc = "waiting"
    /\ password = <<112, 97, 115, 115, 119, 111, 114, 100>>
    /\ request = api_url \o <<53, 66, 65, 65, 54>>

\* C2: on every HTTP 200 body, malformed records included, check_pwned_api
\* returns a (found, occurrenceCount) pair and raises nothing, so that
\* check_password goes on to the recommendations.
C2_MalformedBodyNeverRaises ==
    Got200 => /\ raised = "none"
              /\ Len(result) = 2
              /\ pc \in {"report", "reported"}

\* C3: in every result check_pwned_api returns, occurrenceCount < 0 implies
\* found = False.
C3_NegativeCountMeansNotFound ==
    result # <<>> => (result[2] < 0 => result[1] = FALSE)

C5_ZeroCountMeansConfirmedAbsent ==
    Replied =>
        /\ result = <<FALSE, 0>> =>
              /\ Got200
              /\ \A line \in Range(SplitLines(reply[1].text)) :
                    SplitColon(line)[1] # suffix
        /\ (reply[1].kind = "response" /\ reply[1].status_code # 200) =>
              /\ raised = "none"
              /\ result = <<FALSE, 0 - 1>>

\* a record "<35 hex characters>:<decimal digits>"
C6_WellFormed(line) ==
    /\ Len(line) >= 37
    /\ line[36] = 58
    /\ \A i \in 1..35 : line[i] \in (48..57) \cup (65..70) \cup (97..102)
    /\ \A i \in 37..Len(line) : line[i] \in 48..57

\* C6: on a 200 body of well-formed records check_pwned_api returns a pair:
\* (True, count of the first record whose suffix is exactly the password's
\* suffix), wherever that record stands, and (False, 0) if there is none.
\* The result is thereby a function of the suffix and the body: a repeated
\* call with the same password and body returns the same pair.
C6_FirstMatchWins ==
    Got200 =>
        LET lines == SplitLines(reply[1].text)
            hits == {i \in 1..Len(lines) : SubSeq(lines[i], 1, 35) = suffix}
            first == CHOOSE i \in hits : \A j \in hits : i <= j
        IN  (\A i \in 1..Len(lines) : C6_WellFormed(lines[i])) =>
                /\ Len(result) = 2
                /\ hits = {} => result = <<FALSE, 0>>
                /\ hits # {} =>
                      /\ result[1] = TRUE
                      /\ Decimal(result[2]) = SubSeq(lines[first], 37,
                                                     Len(lines[first]))

\* the character classes of C7, from the characters of the password
C7_HasDigit(p) ==
    \E c \in Range(p) : c \in (48..57) \cup (1632..1641)

C7_HasLower(p) == \E c \in Range(p) : c \in 97..122

C7_HasUpper(p) == \E c \in Range(p) : c \in 65..90

C7_HasSpecial(p) ==
    \E c \in Range(p) :
        c \in {33, 34, 35, 36, 37, 38, 40, 41, 42, 44, 46, 58, 60, 62, 63, 64,
               94, 123, 124, 125}

C7_AllFour(p) ==
    C7_HasDigit(p) /\ C7_HasLower(p) /\ C7_HasUpper(p) /\ C7_HasSpecial(p)

\* lengthPoints + digitPoints + casePoints + specialPoints
C7_Sum(p) ==
    (IF Len(p) >= 12 THEN 3 ELSE IF Len(p) >= 8 THEN 2 ELSE 0)
    + (IF C7_HasDigit(p) THEN 1 ELSE 0)
    + (IF C7_HasLower(p) /\ C7_HasUpper(p) THEN 2
       ELSE IF C7_HasLower(p) \/ C7_HasUpper(p) THEN 1 ELSE 0)
    + (IF C7_HasSpecial(p) THEN 2 ELSE 0)

C7_Scored == analysis # <<>> /\ Lower(password) \notin load_common_passwords

\* C7 as stated: for a password not in the blocklist the score is the sum
\* of the four criteria (a letter being one of a-z, A-Z), it is in 0..10,
\* 0 for the empty string, whatever the breach result, and it is exactly 10
\* when length >= 12 and all four character classes are present.
C7_FullPasswordScoresTen ==
    C7_Scored =>
        /\ analysis[1].score = C7_Sum(password)
        /\ analysis[1].score \in 0..10
        /\ password = <<>> => analysis[1].score = 0
        /\ (Len(password) >= 12 /\ C7_AllFour(password)) =>
                analysis[1].score = 10

\* C7 amended: as above, but a password of length >= 12 with all four
\* classes scores 3 + 1 + 2 + 2 = 8, which is the highest score there is.
C7_ScoreIsSumOfCriteria ==
    C7_Scored =>
        /\ analysis[1].score = C7_Sum(password)
        /\ analysis[1].score \in 0..8
        /\ analysis[1].length = Len(password)
        /\ password = <<>> => analysis[1].score = 0
        /\ (Len(password) >= 12 /\ C7_AllFour(password)) <=>
                analysis[1].score = 8

\* a password of exactly 12 characters with all four classes, scored, and
\* a breach result at hand
C7_Witness ==
    /\ pc = "advised"
    /\ C7_Scored
    /\ Len(password) = 12
    /\ C7_AllFour(password)
    /\ analysis[1].score = 8
    /\ result = <<TRUE, 2>>

\* C8: for a password whose lowercased form is a blocklist entry, whatever
\* its letter case, the score is 0, the label Weak, and the findings are
\* those of the length, digit, case and special-character criteria,
\* unchanged and in that order, followed by the blocklist finding as the
\* last element.
C8_BlocklistResetsScore ==
    (analysis # <<>> /\ Lower(password) \in load_common_passwords) =>
        LET a == analysis[1]
            n == Len(a.feedback)
        IN  /\ a.score = 0
            /\ a.strength = "Weak"
            /\ n >= 4
            /\ a.feedback[n] = "- in the list of weakest passwords"
            /\ SubSeq(a.feedback, 1, n - 1) =
                    LengthCriterion(password)[2] \o DigitCriterion(password)[2]
                    \o CaseCriterion(password)[2]
                    \o SpecialCriterion(password)[2]
            /\ a.feedback[1] \in {"+ length excellent (12+)",
                                  "+ length good (8+)",
                                  "- too short (8+ recommended)"}
            /\ a.feedback[2] \in {"+ has digits", "- add digits"}
            /\ a.feedback[n - 1] \in {"+ has special characters",
                                      "- add special characters"}

\* a blocklist entry typed with upper-case letters, whose criteria alone
\* would have given points
C8_Witness ==
    /\ pc = "scored"
    /\ Lower(password) \in load_common_passwords
    /\ password \notin load_common_passwords
    /\ C7_Sum(password) >= 4
    /\ analysis[1].score = 0
    /\ Len(analysis[1].feedback) = 5

\* C9: the label is a function of the final score alone: Excellent iff
\* score >= 8, Good iff 5 <= score <= 7, Medium iff 3 <= score <= 4, Weak
\* iff score <= 2; so no password shorter than 8 characters is Excellent.
C9_LabelFromScore ==
    analysis # <<>> =>
        LET a == analysis[1]
        IN  /\ a.strength \in {"Excellent", "Good", "Medium", "Weak"}
            /\ a.strength = "Excellent" <=> a.score >= 8
            /\ a.strength = "Good" <=> a.score \in 5..7
            /\ a.strength = "Medium" <=> a.score \in 3..4
            /\ a.strength = "Weak" <=> a.score <= 2
            /\ Len(password) < 8 => a.strength # "Excellent"

\* a password shorter than 8 characters labelled Good, with score 5
C9_Witness ==
    /\ pc = "scored"
    /\ Len(password) < 8
    /\ analysis[1].score = 5
    /\ analysis[1].strength = "Good"

\* C10: the list is, in this order, the breach warning with the count iff
\* found and count > 0, the increase-length entry iff length < 8, the
\* combine-classes entry iff score < 5, then the two fixed entries: 2 to 5
\* entries, the warning first when present, the fixed entries last, and no
\* warning for (False, -1) or a zero count.
C10_RecommendationList ==
    pc \in {"advised", "reported"} =>
        LET r == recommendations
            n == Len(r)
            a == analysis[1]
            warn == result[1] /\ result[2] > 0
            short == a.length < 8
            weak == a.score < 5
        IN  /\ n = 2 + (IF warn THEN 1 ELSE 0) + (IF short THEN 1 ELSE 0)
                     + (IF weak THEN 1 ELSE 0)
            /\ n \in 2..5
            /\ r[n - 1] = <<"do not reuse one password on several sites">>
            /\ r[n] = <<"consider a password manager">>
            /\ warn => r[1] = <<"URGENT: found in breaches", result[2]>>
            /\ short => r[IF warn THEN 2 ELSE 1] =
                            <<"increase length to at least 12, now", a.length>>
            /\ weak => r[n - 2] = <<"combine upper + lower + digits + special">>
            /\ ~warn => \A i \in 1..n : r[i][1] # "URGENT: found in breaches"

\* all five entries at once
C10_Witness ==
    /\ pc = "advised"
    /\ Len(recommendations) = 5
    /\ recommendations[1] = <<"URGENT: found in breaches", 2>>

====
